---- MODULE Spec2Model ----
(***************************************************************************)
(* Model of src/server.js: an Express application over a PostgreSQL pool.  *)
(* State: the two relations users and tasks with their SERIAL sequences,   *)
(* the wall clock, the tokens handed out so far, and the last request and  *)
(* its response.  One action per route handler (middleware included).      *)
(*                                                                         *)
(* JavaScript values that may be `undefined` (and SQL values that may be   *)
(* NULL) are sequences of length at most one: << >> is undefined / NULL,   *)
(* <<v>> is the value v.                                                   *)
(***************************************************************************)
EXTENDS Integers, Sequences, FiniteSets, TLC

\* ----------------------------------------------------------------- bounds
MaxUsers == 2      \* cap on users_id_seq
MaxTasks == 2      \* cap on tasks_id_seq and on the task ids requests name
MaxTime == 1       \* cap on the clock, in units of 24 hours

\* expiresIn: '24h', in clock units of 24 hours
TokenTTL == 1

\* ------------------------------------------------------------ input sets
Emails == {"a@x.com", "b@x.com"}
Passwords == {"pw1", "pw2"}
Titles == {"buy milk"}
Descriptions == {"2 litres"}
Categories == {"home"}
Priorities == {"MEDIUM", "HIGH"}
Statuses == {"TODO", "DONE"}

undefined == << >>
Some(v) == <<v>>
Opt(S) == {undefined} \cup {Some(v) : v \in S}

\* JS truthiness of an optional string: undefined and '' are falsy
Falsy(o) == o = undefined \/ o = Some("")

\* -------------------------------------------------------------- responses
ErrorRes(code, msg) == [status |-> code, body |-> [shape |-> "error", error |-> msg]]

\* res.json({access_token, token_type: 'bearer', user: {id, email}})
AuthRes(tok, uid, mail) ==
  [status |-> 200,
   body |-> [shape |-> "auth", access_token |-> tok, token_type |-> "bearer",
             user |-> [id |-> uid, email |-> mail]]]

\* res.json(result.rows): the body is the array of rows
RowsRes(rows) == [status |-> 200, body |-> [shape |-> "rows", rows |-> rows]]

\* res.json({tasks: result.rows, total: result.rows.length})
ListRes(rows) ==
  [status |-> 200, body |-> [shape |-> "list", tasks |-> rows, total |-> Len(rows)]]

SuccessRes == [status |-> 200, body |-> [shape |-> "success", success |-> TRUE]]

\* ------------------------------------------------------------- libraries
\* bcrypt.hashSync(password, 10)
hashSync(pw) == [alg |-> "bcrypt", cost |-> 10, of |-> pw]

\* bcrypt.compareSync(s, hash): throws "Illegal arguments" unless both
\* arguments are strings; s and hash are optional values here
compareSync(s, hash) ==
  IF s = undefined \/ hash = undefined
    THEN [threw |-> TRUE, val |-> FALSE]
    ELSE [threw |-> FALSE, val |-> hash[1] = hashSync(s[1])]

\* jwt.sign({ sub }, JWT_SECRET, { expiresIn: '24h' }); JSON drops an
\* undefined sub, which the optional value << >> stands for
jwtSign(sub, clock) ==
  [payload |-> [sub |-> sub, iat |-> clock, exp |-> clock + TokenTTL], sig |-> "good"]

\* A property read .id / .email / .password_hash on the array result.rows:
\* an Array has no such property, the read yields undefined
ArrayProp(rows, name) == IF name = "length" THEN Some(Len(rows)) ELSE undefined

\* ------------------------------------------------------ Authorization header
\* A header string is a sequence of lexemes: a space, a word, or a token.
Sp == [k |-> "sp", w |-> "", tok |-> << >>]
Word(w) == [k |-> "word", w |-> w, tok |-> << >>]
Jwt(t) == [k |-> "jwt", w |-> "", tok |-> <<t>>]

JsUndefined == [type |-> "undefined", val |-> << >>]
JsString(s) == [type |-> "string", val |-> s]
JsArray(a) == [type |-> "object", val |-> a]

\* String.prototype.split(' '): the array of the pieces between spaces
RECURSIVE SplitFrom(_, _, _)
SplitFrom(s, i, cur) ==
  IF i > Len(s) THEN <<JsString(cur)>>
  ELSE IF s[i].k = "sp" THEN <<JsString(cur)>> \o SplitFrom(s, i + 1, << >>)
  ELSE SplitFrom(s, i + 1, Append(cur, s[i]))

Split(s) == JsArray(SplitFrom(s, 1, << >>))

\* req.headers.authorization?.split(' ')
OptSplit(h) == IF h.type = "undefined" THEN JsUndefined ELSE Split(h.val)

\* JS truthiness: undefined and '' are falsy, every array is truthy
Truthy(v) ==
  CASE v.type = "undefined" -> FALSE
    [] v.type = "string" -> Len(v.val) > 0
    [] OTHER -> TRUE

Throw(msg) == [threw |-> TRUE, msg |-> msg, sub |-> undefined]

\* jwt.verify(jwtString, JWT_SECRET), synchronous form
jwtVerify(v, clock) ==
  IF ~Truthy(v) THEN Throw("jwt must be provided")
  ELSE IF v.type # "string" THEN Throw("jwt must be a string")
  ELSE IF Len(v.val) # 1 \/ v.val[1].k # "jwt" THEN Throw("jwt malformed")
  ELSE LET t == v.val[1].tok[1] IN
    IF t.sig # "good" THEN Throw("invalid signature")
    ELSE IF clock >= t.payload.exp THEN Throw("jwt expired")
    ELSE [threw |-> FALSE, msg |-> "", sub |-> t.payload.sub]

\* verifyToken without the signature check, reading the second piece of the
\* header (a decode in place of a verify)
verifyToken_decodeOnly(h, clock) ==
  LET token == OptSplit(h) IN
  IF ~Truthy(token) THEN [next |-> FALSE, res |-> ErrorRes(401, "No token"), user_id |-> undefined]
  ELSE IF Len(token.val) >= 2 /\ Len(token.val[2].val) = 1 /\ token.val[2].val[1].k = "jwt"
    THEN [next |-> TRUE, res |-> ErrorRes(401, "Invalid token"),
          user_id |-> token.val[2].val[1].tok[1].payload.sub]
    ELSE [next |-> FALSE, res |-> ErrorRes(401, "Invalid token"), user_id |-> undefined]

\* verifyToken(req, res, next): next = TRUE when next() is called with
\* req.user_id set, otherwise res is the response sent
verifyToken(h, clock) ==
  LET token == OptSplit(h) IN
  IF ~Truthy(token) THEN [next |-> FALSE, res |-> ErrorRes(401, "No token"), user_id |-> undefined]
  ELSE LET decoded == jwtVerify(token, clock) IN
    IF decoded.threw
      THEN [next |-> FALSE, res |-> ErrorRes(401, "Invalid token"), user_id |-> undefined]
      ELSE [next |-> TRUE, res |-> ErrorRes(401, "Invalid token"), user_id |-> decoded.sub]

\* ---------------------------------------------------------------- storage
\* err.message as the sequence of its words
MsgDuplicate(constraint) ==
  <<"duplicate", "key", "value", "violates", "unique", "constraint", constraint>>
MsgConnection == <<"Connection", "terminated", "unexpectedly">>
MsgNotNull == <<"null", "value", "in", "column", "violates", "not-null", "constraint">>

\* String.prototype.includes(word) on a message
Includes(msg, word) == \E i \in 1..Len(msg) : msg[i] = word

QueryOk(rows) == [failed |-> FALSE, message |-> << >>, rows |-> rows]
QueryErr(msg) == [failed |-> TRUE, message |-> msg, rows |-> << >>]

\* The orders in which a SELECT may return the set S of rows
SeqsOf(S) ==
  {s \in [1..Cardinality(S) -> S] : \A i, j \in 1..Cardinality(S) : i # j => s[i] # s[j]}

\* ... ORDER BY created_at DESC: rows with equal created_at come in any order
OrderByCreatedAtDesc(S) ==
  {s \in SeqsOf(S) : \A i, j \in 1..Len(s) : i < j => s[i].created_at >= s[j].created_at}

\* INSERT INTO users without the UNIQUE constraint on email
InsertUser_noUnique(us, seq, mail, hash, clock) ==
  LET id == seq + 1 IN
  IF \E u \in us : u.id = id
    THEN [q |-> QueryErr(MsgDuplicate("users_pkey")), users |-> us, seq |-> id]
    ELSE [q |-> QueryOk(<<[id |-> id, email |-> mail]>>),
          users |-> us \cup {[id |-> id, email |-> mail, password_hash |-> hash,
                              created_at |-> clock]},
          seq |-> id]

\* INSERT INTO users (email, password_hash) VALUES ($1, $2) RETURNING id, email
\* against the users table: id SERIAL PRIMARY KEY (the sequence value is
\* consumed even when the insert fails), email UNIQUE
InsertUser(us, seq, mail, hash, clock) ==
  LET id == seq + 1 IN
  IF \E u \in us : u.id = id
    THEN [q |-> QueryErr(MsgDuplicate("users_pkey")), users |-> us, seq |-> id]
  ELSE IF \E u \in us : u.email = mail
    THEN [q |-> QueryErr(MsgDuplicate("users_email_key")), users |-> us, seq |-> id]
    ELSE [q |-> QueryOk(<<[id |-> id, email |-> mail]>>),
          users |-> us \cup {[id |-> id, email |-> mail, password_hash |-> hash,
                              created_at |-> clock]},
          seq |-> id]

\* SELECT * FROM users WHERE email = $1
SelectUserByEmail(us, mail) == CHOOSE s \in SeqsOf({u \in us : u.email = mail}) : TRUE

\* A row of the tasks table with the column defaults
NewTask(id, uid, title, description, clock) ==
  [id |-> id, user_id |-> uid, title |-> title, description |-> description,
   category |-> undefined, priority |-> "MEDIUM", status |-> "TODO",
   suggested_deadline |-> undefined, actual_deadline |-> undefined,
   ai_analyzed |-> FALSE, created_at |-> clock, updated_at |-> clock]

\* INSERT INTO tasks (user_id, title, description) VALUES ($1, $2, $3) RETURNING *
\* user_id is NOT NULL and references users(id); an undefined parameter is NULL
InsertTask(ts, us, seq, uid, title, description, clock) ==
  LET id == seq + 1 IN
  IF uid = undefined
    THEN [q |-> QueryErr(MsgNotNull), tasks |-> ts, seq |-> id]
  ELSE IF \E t \in ts : t.id = id
    THEN [q |-> QueryErr(MsgDuplicate("tasks_pkey")), tasks |-> ts, seq |-> id]
  ELSE IF ~\E u \in us : u.id = uid[1]
    THEN [q |-> QueryErr(<<"violates", "foreign", "key", "constraint">>),
          tasks |-> ts, seq |-> id]
    ELSE LET row == NewTask(id, uid[1], title, description, clock) IN
         [q |-> QueryOk(<<row>>), tasks |-> ts \cup {row}, seq |-> id]

\* ... WHERE user_id = $1 [AND status = $2]
OwnedBy(ts, uid) == {t \in ts : uid # undefined /\ t.user_id = uid[1]}
OwnedWithStatus(ts, uid, status) == {t \in OwnedBy(ts, uid) : t.status = status}

\* ... WHERE id = $1 AND user_id = $2
Matching(ts, id, uid) == {t \in OwnedBy(ts, uid) : t.id = id}

\* The SET list built at server.js:195-225: a field of the patch that is
\* not undefined replaces the column, updated_at = CURRENT_TIMESTAMP
ApplyPatch(t, patch, clock) ==
  [t EXCEPT !.title = IF patch.title # undefined THEN patch.title[1] ELSE @,
            !.description = IF patch.description # undefined THEN patch.description ELSE @,
            !.category = IF patch.category # undefined THEN patch.category ELSE @,
            !.priority = IF patch.priority # undefined THEN patch.priority[1] ELSE @,
            !.status = IF patch.status # undefined THEN patch.status[1] ELSE @,
            !.updated_at = clock]

\* updates.length === 0
NoUpdates(patch) ==
  /\ patch.title = undefined /\ patch.description = undefined
  /\ patch.category = undefined /\ patch.priority = undefined
  /\ patch.status = undefined

\* UPDATE tasks SET ... WHERE id = $n AND user_id = $n+1 RETURNING *
UpdateTasks(ts, id, uid, patch, clock) ==
  LET hit == Matching(ts, id, uid)
      new == {ApplyPatch(t, patch, clock) : t \in hit} IN
  [rows |-> CHOOSE s \in SeqsOf(new) : TRUE, tasks |-> (ts \ hit) \cup new]

\* DELETE FROM tasks WHERE id = $1 AND user_id = $2
DeleteTasks(ts, id, uid) == ts \ Matching(ts, id, uid)

\* ------------------------------------------------------------------ state
VARIABLES users, tasks, userSeq, taskSeq, now, issued, req, res

vars == <<users, tasks, userSeq, taskSeq, now, issued, req, res>>
store == <<users, tasks, userSeq, taskSeq>>

\* The database outlives the process (CREATE TABLE IF NOT EXISTS): at start
\* it holds no user, or one user with up to MaxTasks tasks (TODO and DONE
\* alternating).  Rows restored
\* with explicit ids leave users_id_seq at its start value.
StoredUser ==
  [id |-> 1, email |-> "b@x.com", password_hash |-> hashSync("pw1"), created_at |-> 0]

StoredTasks ==
  {{[NewTask(i, 1, "buy milk", undefined, 0)
        EXCEPT !.status = IF i % 2 = 0 THEN "DONE" ELSE "TODO"] : i \in 1..n} :
     n \in 0..MaxTasks}

NoRequest == [op |-> "none"]
NoResponse == [status |-> 0, body |-> [shape |-> "none"]]

Init ==
  /\ \/ users = {} /\ userSeq = 0 /\ tasks = {}
     \/ users = {StoredUser} /\ userSeq \in {0, 1} /\ tasks \in StoredTasks
  /\ taskSeq = Cardinality(tasks)
  /\ now = 0
  /\ issued = {}
  /\ req = NoRequest
  /\ res = NoResponse

\* Tokens a client may present: those handed out by this process, and, as
\* the server keeps no record of the tokens it issued, tokens naming the
\* user stored at start, signed with JWT_SECRET (by an earlier process) or
\* with another key
Presentable ==
  {i.tok : i \in issued} \cup
  {[payload |-> [sub |-> Some(u.id), iat |-> 0, exp |-> TokenTTL], sig |-> g] :
     u \in users \cap {StoredUser}, g \in {"good", "bad"}}

Bearer(t) == JsString(<<Word("Bearer"), Sp, Jwt(t)>>)

\* Values of req.headers.authorization: none, a scheme without a token, a
\* token under the Bearer scheme, a token without a scheme
Headers ==
  {JsUndefined, JsString(<<Word("Bearer")>>)}
    \cup {Bearer(t) : t \in Presentable}
    \cup {JsString(<<Jwt(t)>>) : t \in {p \in Presentable : p.payload.sub # undefined /\ p.sig = "good"}}

\* Values of req.params.id: the ids assigned so far and the next one
TaskIds == 1..(IF taskSeq < MaxTasks THEN taskSeq + 1 ELSE MaxTasks)

\* --------------------------------------------------------------- handlers
\* app.post('/api/auth/register'); down = the pool cannot reach the database
Register ==
  \E email \in Opt(Emails), password \in Opt(Passwords), down \in BOOLEAN :
    /\ req' = [op |-> "register", email |-> email, password |-> password, down |-> down]
    /\ UNCHANGED <<tasks, taskSeq, now>>
    /\ IF Falsy(email) \/ Falsy(password)
         THEN /\ res' = ErrorRes(400, "Email and password required")
              /\ UNCHANGED <<users, userSeq, issued>>
         ELSE /\ down \/ userSeq < MaxUsers
              /\ LET ins == InsertUser(users, userSeq, email[1], hashSync(password[1]), now)
                     result == IF down THEN QueryErr(MsgConnection) ELSE ins.q IN
                 /\ users' = IF down THEN users ELSE ins.users
                 /\ userSeq' = IF down THEN userSeq ELSE ins.seq
                 /\ IF ~result.failed
                      THEN LET user == result.rows
                               token == jwtSign(ArrayProp(user, "id"), now) IN
                           /\ res' = AuthRes(token, ArrayProp(user, "id"),
                                             ArrayProp(user, "email"))
                           /\ issued' = issued \cup {[tok |-> token, user |-> result.rows[1].id]}
                      ELSE /\ res' = IF Includes(result.message, "duplicate")
                                       THEN ErrorRes(400, "Email already exists")
                                       ELSE ErrorRes(500, "Registration failed")
                           /\ UNCHANGED issued

\* app.post('/api/auth/login')
Login ==
  \E email \in Opt(Emails), password \in Opt(Passwords) :
    /\ req' = [op |-> "login", email |-> email, password |-> password]
    /\ UNCHANGED <<store, now>>
    /\ IF Falsy(email) \/ Falsy(password)
         THEN res' = ErrorRes(400, "Email and password required") /\ UNCHANGED issued
       ELSE LET rows == SelectUserByEmail(users, email[1]) IN
         IF Len(rows) = 0
           THEN res' = ErrorRes(401, "Invalid credentials") /\ UNCHANGED issued
         ELSE LET user == rows
                  passwordMatch == compareSync(password, ArrayProp(user, "password_hash")) IN
           IF passwordMatch.threw
             THEN res' = ErrorRes(500, "Login failed") /\ UNCHANGED issued
           ELSE IF ~passwordMatch.val
             THEN res' = ErrorRes(401, "Invalid credentials") /\ UNCHANGED issued
           ELSE LET token == jwtSign(ArrayProp(user, "id"), now) IN
             /\ res' = AuthRes(token, ArrayProp(user, "id"), ArrayProp(user, "email"))
             /\ issued' = issued \cup {[tok |-> token, user |-> rows[1].id]}

\* app.post('/api/tasks', verifyToken, ...)
CreateTask ==
  \E h \in Headers, title \in Opt(Titles), description \in Opt(Descriptions) :
    LET guard == verifyToken(h, now) IN
    /\ req' = [op |-> "create", header |-> h, title |-> title, description |-> description]
    /\ UNCHANGED <<users, userSeq, now, issued>>
    /\ IF ~guard.next
         THEN res' = guard.res /\ UNCHANGED <<tasks, taskSeq>>
       ELSE IF Falsy(title)
         THEN res' = ErrorRes(400, "Title required") /\ UNCHANGED <<tasks, taskSeq>>
       ELSE /\ taskSeq < MaxTasks
            /\ LET ins == InsertTask(tasks, users, taskSeq, guard.user_id, title[1],
                                     description, now) IN
               /\ tasks' = ins.tasks
               /\ taskSeq' = ins.seq
               /\ res' = IF ins.q.failed THEN ErrorRes(500, "Task creation failed")
                                         ELSE RowsRes(ins.q.rows)

\* app.get('/api/tasks', verifyToken, ...)
ListTasks ==
  \E h \in Headers, status \in Opt(Statuses) :
    LET guard == verifyToken(h, now) IN
    /\ req' = [op |-> "list", header |-> h, status |-> status]
    /\ UNCHANGED <<store, now, issued>>
    /\ IF ~guard.next
         THEN res' = guard.res
         ELSE \E rows \in OrderByCreatedAtDesc(
                            IF Falsy(status) THEN OwnedBy(tasks, guard.user_id)
                            ELSE OwnedWithStatus(tasks, guard.user_id, status[1])) :
                res' = ListRes(rows)

\* app.get('/api/tasks/:id', verifyToken, ...)
GetTask ==
  \E h \in Headers, id \in TaskIds :
    LET guard == verifyToken(h, now) IN
    /\ req' = [op |-> "get", header |-> h, id |-> id]
    /\ UNCHANGED <<store, now, issued>>
    /\ IF ~guard.next
         THEN res' = guard.res
         ELSE LET rows == CHOOSE s \in SeqsOf(Matching(tasks, id, guard.user_id)) : TRUE IN
              res' = IF Len(rows) = 0 THEN ErrorRes(404, "Task not found") ELSE RowsRes(rows)

\* Bodies of PATCH /api/tasks/:id
AllPatches ==
  [title : Opt(Titles), description : Opt(Descriptions), category : Opt(Categories),
   priority : Opt({"HIGH"}), status : Opt({"DONE"})]

PatchSize(p) ==
  Cardinality({f \in {"title", "description", "category", "priority", "status"} :
                 p[f] # undefined})

\* the empty patch, the patch of status alone, and the patch of all fields
Patches ==
  {p \in AllPatches : PatchSize(p) \in {0, 5}
                       \/ (PatchSize(p) = 1 /\ p.status # undefined)}


\* app.patch('/api/tasks/:id', verifyToken, ...)
UpdateTask ==
  \E h \in Headers, id \in TaskIds, patch \in Patches :
    LET guard == verifyToken(h, now) IN
    /\ req' = [op |-> "update", header |-> h, id |-> id, patch |-> patch]
    /\ UNCHANGED <<users, userSeq, taskSeq, now, issued>>
    /\ IF ~guard.next
         THEN res' = guard.res /\ UNCHANGED tasks
       ELSE IF NoUpdates(patch)
         THEN res' = ErrorRes(400, "No updates provided") /\ UNCHANGED tasks
       ELSE LET result == UpdateTasks(tasks, id, guard.user_id, patch, now) IN
            /\ tasks' = result.tasks
            /\ res' = IF Len(result.rows) = 0 THEN ErrorRes(404, "Task not found")
                                               ELSE RowsRes(result.rows)

\* app.delete('/api/tasks/:id', verifyToken, ...)
DeleteTask ==
  \E h \in Headers, id \in TaskIds :
    LET guard == verifyToken(h, now) IN
    /\ req' = [op |-> "delete", header |-> h, id |-> id]
    /\ UNCHANGED <<users, userSeq, taskSeq, now, issued>>
    /\ IF ~guard.next
         THEN res' = guard.res /\ UNCHANGED tasks
         ELSE /\ tasks' = DeleteTasks(tasks, id, guard.user_id)
              /\ res' = SuccessRes

\* The wall clock advances between requests
Tick ==
  /\ now < MaxTime
  /\ now' = now + 1
  /\ UNCHANGED <<store, issued, req, res>>

Next ==
  \/ Register
  \/ Login
  \/ CreateTask
  \/ ListTasks
  \/ GetTask
  \/ UpdateTask
  \/ DeleteTask
  \/ Tick

Spec == Init /\ [][Next]_vars

TypeOK ==
  /\ userSeq \in 0..MaxUsers /\ taskSeq \in 0..MaxTasks /\ now \in 0..MaxTime
  /\ \A u \in users : u.id \in 1..MaxUsers
  /\ res.status \in {0, 200, 400, 401, 404, 500}

\* ----------------------------------------------------------------- claims
\* A step of a route handler: the clock stands still while a request is served
Served == now' = now

IsTaskOp(r) == r.op \in {"create", "list", "get", "update", "delete"}
HasCredentials(r) == ~Falsy(r.email) /\ ~Falsy(r.password)

\* The header has the form 'Bearer <token>'
WellFormedBearer(h) ==
  /\ h.type = "string"
  /\ Len(h.val) = 3
  /\ h.val[1] = Word("Bearer")
  /\ h.val[2].k = "sp"
  /\ h.val[3].k = "jwt"

TokenOf(h) == h.val[3].tok[1]

\* The token carries a signature made with JWT_SECRET and has not expired
Verifies(t, clock) == t.sig = "good" /\ clock < t.payload.exp

\* The token names user uid, or was handed out when uid registered or logged in
TokenFor(t, uid) == t.payload.sub = Some(uid) \/ [tok |-> t, user |-> uid] \in issued

\* The request carries a verifying token of user uid
AuthenticatedAs(r, uid, clock) ==
  /\ WellFormedBearer(r.header)
  /\ Verifies(TokenOf(r.header), clock)
  /\ TokenOf(r.header).payload.sub = Some(uid)

\* The access guard of the specification fails: missing header, malformed
\* scheme, invalid signature or expired token
GuardFails(h, clock) == ~WellFormedBearer(h) \/ ~Verifies(TokenOf(h), clock)

\* C1: a get, update or delete on a task of user B that presents a token of
\* another registered user A is answered 404 'Task not found' and leaves the
\* tasks relation as it was.
C1_CrossUserNotFound ==
  [][(/\ Served
      /\ req'.op \in {"get", "update", "delete"}
      /\ WellFormedBearer(req'.header)
      /\ Verifies(TokenOf(req'.header), now)
      /\ req'.op = "update" => ~NoUpdates(req'.patch)
      /\ \E a \in users, t \in tasks :
           /\ TokenFor(TokenOf(req'.header), a.id)
           /\ t.id = req'.id
           /\ t.user_id # a.id)
     => (res' = ErrorRes(404, "Task not found") /\ tasks' = tasks)]_vars

\* C2: a login with non-empty email and password whose email is not registered or whose password is not the registered
\* one, is answered 401 'Invalid credentials' in both cases.
C2_UniformInvalidCredentials ==
  [][(/\ Served
      /\ req'.op = "login"
      /\ HasCredentials(req')
      /\ \A u \in users :
           u.email = req'.email[1] => u.password_hash # hashSync(req'.password[1]))
     => res' = ErrorRes(401, "Invalid credentials")]_vars

\* C3: the users relation never holds two rows with one email; a register
\* whose email is already stored leaves users unchanged and, the database
\* reachable, is answered 400 'Email already exists'.
C3_EmailConflict ==
  /\ [](\A u1, u2 \in users : u1.email = u2.email => u1 = u2)
  /\ [][(/\ Served
         /\ req'.op = "register"
         /\ HasCredentials(req')
         /\ \E u \in users : u.email = req'.email[1])
        => (/\ users' = users
            /\ ~req'.down => res' = ErrorRes(400, "Email already exists"))]_vars

\* C3 witness: a register of an email stored by an earlier successful
\* register of this run was answered 400 'Email already exists'
C3_Witness ==
  /\ req.op = "register"
  /\ res = ErrorRes(400, "Email already exists")
  /\ \E u \in users, i \in issued : u.id = i.user /\ u.email = req.email[1]

\* C4: a task request whose header is 'Bearer <token>', the token handed out
\* by register or login and not expired, is not rejected by verifyToken
\* (it is not answered 401).
C4_IssuedTokenAccepted ==
  [][(/\ Served
      /\ IsTaskOp(req')
      /\ WellFormedBearer(req'.header)
      /\ \E i \in issued : i.tok = TokenOf(req'.header)
      /\ now < TokenOf(req'.header).payload.exp)
     => res'.status # 401]_vars

\* C5: a register or login answered 200 returns a token whose subject is the
\* id of the row stored under the request's email, and a user summary made
\* of that row's id and email and nothing else.
C5_TokenBoundToUser ==
  [][(/\ Served
      /\ req'.op \in {"register", "login"}
      /\ res'.status = 200)
     => \E u \in users' :
          /\ u.email = req'.email[1]
          /\ res'.body.access_token.payload.sub = Some(u.id)
          /\ res'.body.user = [id |-> Some(u.id), email |-> Some(u.email)]]_vars

\* The columns of a task row
TaskColumns ==
  {"id", "user_id", "title", "description", "category", "priority", "status",
   "suggested_deadline", "actual_deadline", "ai_analyzed", "created_at", "updated_at"}

\* The value column c takes under a patch: title, priority and status are
\* set to the supplied value, description and category to the supplied
\* (nullable) value
Patched(t, patch, c) ==
  IF c \in {"title", "priority", "status"} THEN patch[c][1] ELSE patch[c]

\* C6: an update by the owner with a non-empty patch sets exactly the
\* patched columns and updated_at of that row, leaves every other column and
\* every other row unchanged, and answers with the updated row.
C6_SparseUpdate ==
  [][\A t \in tasks :
       (/\ Served
        /\ req'.op = "update"
        /\ req'.id = t.id
        /\ AuthenticatedAs(req', t.user_id, now)
        /\ ~NoUpdates(req'.patch))
       => \E n \in tasks' :
            /\ tasks' = (tasks \ {t}) \cup {n}
            /\ \A c \in TaskColumns :
                 n[c] = IF c \in DOMAIN req'.patch /\ req'.patch[c] # undefined
                          THEN Patched(t, req'.patch, c)
                        ELSE IF c = "updated_at" THEN now
                        ELSE t[c]
            /\ res'.status = 200
            /\ res'.body.shape = "rows"
            /\ res'.body.rows = <<n>>]_vars

\* C7: a delete by an authenticated user removes exactly the rows whose id
\* and owner match, and is answered {success: true} whether or not a row
\* matched.
C7_IdempotentDelete ==
  [][\A u \in users :
       (/\ Served
        /\ req'.op = "delete"
        /\ AuthenticatedAs(req', u.id, now))
       => (/\ res' = SuccessRes
           /\ tasks' = {t \in tasks : ~(t.id = req'.id /\ t.user_id = u.id)})]_vars

\* C8: a task request on which the access guard fails is answered 401 with
\* an error body, and leaves both relations and their sequences unchanged.
C8_GuardShortCircuits ==
  [][(/\ Served
      /\ IsTaskOp(req')
      /\ GuardFails(req'.header, now))
     => (/\ res'.status = 401
         /\ res'.body.shape = "error"
         /\ store' = store)]_vars

\* C8 witness: a delete of a stored task that presented a token naming the
\* task's owner under a foreign signature was answered 401
C8_Witness ==
  /\ req.op = "delete"
  /\ WellFormedBearer(req.header)
  /\ TokenOf(req.header).sig = "bad"
  /\ \E t \in tasks : t.id = req.id /\ TokenOf(req.header).payload.sub = Some(t.user_id)
  /\ res.status = 401

\* C9: a list by an authenticated user is answered 200 with exactly that
\* user's tasks (of the given status, when a filter is given), newest
\* first, and total equal to their number.
C9_ListOwnTasks ==
  [][\A u \in users :
       (/\ Served
        /\ req'.op = "list"
        /\ AuthenticatedAs(req', u.id, now))
       => (/\ res'.status = 200
           /\ res'.body.shape = "list"
           /\ {res'.body.tasks[i] : i \in 1..Len(res'.body.tasks)} =
                {t \in tasks : /\ t.user_id = u.id
                               /\ req'.status # undefined => t.status = req'.status[1]}
           /\ \A i, j \in 1..Len(res'.body.tasks) :
                i < j => res'.body.tasks[i].created_at >= res'.body.tasks[j].created_at
           /\ res'.body.total = Len(res'.body.tasks)
           /\ res'.body.total = Cardinality(
                {t \in tasks : /\ t.user_id = u.id
                               /\ req'.status # undefined => t.status = req'.status[1]}))]_vars

\* C10: a register is answered 400 'Email already exists' only when the
\* insert failed on the uniqueness of email, that is, only when the email
\* of the request is already stored.
C10_ConflictOnlyOnEmail ==
  [][(/\ Served
      /\ req'.op = "register"
      /\ res' = ErrorRes(400, "Email already exists"))
     => \E u \in users : u.email = req'.email[1]]_vars

====
